---- MODULE Spec2Model ----
(***************************************************************************)
(* Model of the timed quiz runner QuizAgent (quiz.py, quiz1.py, quiz3.py,  *)
(* quiz5.py).  The four files are near-duplicates of one program; the      *)
(* variable `variant` says which file is running.  The state is the state  *)
(* of one call of run_quiz: the main thread's position, its locals, the    *)
(* per-question cancellation flag objects, and the countdown threads.      *)
(* Threads are interleaved at the granularity of their reads and writes of *)
(* the shared flag and of their observable outputs.                        *)
(***************************************************************************)
EXTENDS Integers, Sequences, FiniteSets, TLC

(* ---------------- bounds of the model ---------------- *)

\* most candidates in one response of the generation collaborator, and the
\* largest question count asked for
MaxItems == 2
\* most generate_content requests the model follows (the code has no bound)
AttemptCap == 3

(* ---------------- program constants ---------------- *)

Variants == {"quiz", "quiz1", "quiz3", "quiz5"}

difficulty_levels == {"beginner", "intermediate", "advanced"}

time_limits == [beginner |-> 30, intermediate |-> 45, advanced |-> 60]

ValidChoices == {"A", "B", "C", "D"}

\* files whose generate_quiz retries on a short parse
RetryVariants == {"quiz3", "quiz5"}

(* ---------------- inputs ---------------- *)

LevelInputs == {"beginner", "Advanced", "expert"}

NumQuestionsInputs == (0 - 1) .. MaxItems

\* lines the operator may type at the answer prompt
InputLines == {"A", "b", "x", " "}

\* the `correct` letters of the parsed items the model follows
ItemCorrects == {"A"}

\* level.lower()
Lower(s) ==
    CASE s = "Advanced" -> "advanced"
      [] OTHER -> s

\* input(...).upper().strip()
UpperStrip(s) ==
    CASE s = "b" -> "B"
      [] s = "x" -> "X"
      [] s = " " -> ""
      [] OTHER -> s

\* Python truthiness of the local `answer` (None and "" are falsy)
Truthy(a) == a \notin {"None", ""}

(* ---------------- state ---------------- *)

VARIABLES
    variant,        \* which of the four files runs
    text,           \* response.text handed to the parse loop (ParseSpec)
    level,          \* run_quiz argument
    num_questions,  \* run_quiz argument
    mainpc,         \* position of the main thread in run_quiz
    attempts,       \* generate_content requests issued so far
    emptyText,      \* the last response had an empty text
    questions,      \* the list returned by generate_quiz
    i,              \* loop variable of `for i, q in enumerate(questions, 1)`
    answer,         \* local `answer` ("None" is Python's None)
    flags,          \* the one-element lists created by `timer_expired = [False]`
    timer_expired,  \* the list the closure variable timer_expired is bound to
    timerpc,        \* position of the countdown thread of each question
    remaining,      \* loop variable of each countdown thread
    answers,        \* local list `answers`
    score,          \* local `score`
    timesUp,        \* "Time's up!" printed since the question was displayed
    accepted,       \* the input loop took the valid-choice branch of this question
    expiredFirst,   \* a countdown set the flag before any valid line was read
    skipped,        \* the countdown found the flag set at the top of an iteration
    interrupted,    \* the question whose prompt a KeyboardInterrupt ended (0: none)
    results,        \* "=== Quiz Results ===" printed
    percentage,     \* the percentage computed, as the fraction num / den
    tier            \* performance feedback printed ("none" if not)

vars == <<variant, text, level, num_questions, mainpc, attempts, emptyText, questions,
          i, answer,
          flags, timer_expired, timerpc, remaining, answers, score,
          timesUp, accepted, expiredFirst, skipped, interrupted, results,
          percentage, tier>>

inputVars == <<variant, text, level, num_questions>>
genVars == <<attempts, emptyText, questions>>
timerVars == <<timerpc, remaining, timesUp, expiredFirst, skipped>>
sessionVars == <<i, answer, answers, score, accepted, interrupted>>
reportVars == <<results, percentage, tier>>

Questions == 1 .. MaxItems

(* ---------------- generate_quiz ---------------- *)

\* one candidate segment of the response text: well formed or not, and the
\* letter after its "Correct: " marker
Candidates == [wf : BOOLEAN, correct : ItemCorrects]

\* the texts the generation collaborator may return
Responses ==
    {[empty |-> TRUE, cands |-> <<>>]} \cup
    {[empty |-> FALSE, cands |-> c] :
        c \in UNION {[1 .. n -> Candidates] : n \in 0 .. MaxItems}}

\* the parse loop: a faulty candidate is skipped, the others are kept in order
RECURSIVE ParseCandidates(_)
ParseCandidates(cands) ==
    IF cands = <<>> THEN <<>>
    ELSE IF Head(cands).wf
         THEN <<[correct |-> Head(cands).correct]>> \o ParseCandidates(Tail(cands))
         ELSE ParseCandidates(Tail(cands))

\* a faulty generate_quiz without the test of the response text
GenerationNeverFails(v, resp) == FALSE

\* `if not response.text` (quiz1 also wants the "Q1." marker in the text)
GenerationFails(v, resp) ==
    \/ resp.empty
    \/ v = "quiz1" /\ resp.cands = <<>>

\* `if len(questions) < num_questions: return self.generate_quiz(...)`
RetriesShortParse(v, qs, n) ==
    v \in RetryVariants /\ Len(qs) < n

(* ---------------- run_quiz: before the question loop ---------------- *)

\* quiz5 indexes its prompt table with the level as given: a level that is
\* not one of the lower-case keys raises KeyError before any request is made
PromptLookupFails(v, lv) == v = "quiz5" /\ lv \notin difficulty_levels

\* a level test that lets every level through (C11 does not hold of it)
LevelNeverRejected(lv) == FALSE

\* `if level.lower() not in self.difficulty_levels: ... return`
LevelRejected(lv) == Lower(lv) \notin difficulty_levels

RunQuizStart ==
    /\ mainpc = "start"
    /\ mainpc' = IF LevelRejected(level) THEN "invalid_level" ELSE "generate"
    /\ UNCHANGED <<inputVars, genVars, sessionVars, flags, timer_expired,
                   timerVars, reportVars>>

\* a faulty run_quiz that lacks the `if not questions` test and enters the
\* question loop with whatever generate_quiz returned
GenerateQuizNoEmptyTest ==
    /\ mainpc = "generate"
    /\ ~PromptLookupFails(variant, level)
    /\ attempts < AttemptCap
    /\ \E resp \in Responses :
        /\ attempts' = attempts + 1
        /\ emptyText' = resp.empty
        /\ IF GenerationFails(variant, resp)
           THEN /\ mainpc' = "gen_failed"
                /\ UNCHANGED questions
           ELSE LET qs == ParseCandidates(resp.cands) IN
                IF RetriesShortParse(variant, qs, num_questions)
                THEN /\ mainpc' = "generate"
                     /\ UNCHANGED questions
                ELSE /\ questions' = qs
                     /\ mainpc' = "display"
    /\ UNCHANGED <<inputVars, sessionVars, flags, timer_expired, timerVars,
                   reportVars>>

\* one request-and-parse cycle of generate_quiz, and, when it returns, the
\* `if not questions` test and the initialisation of score and answers
GenerateQuiz ==
    /\ mainpc = "generate"
    /\ ~PromptLookupFails(variant, level)
    /\ attempts < AttemptCap
    /\ \E resp \in Responses :
        /\ attempts' = attempts + 1
        /\ emptyText' = resp.empty
        /\ IF GenerationFails(variant, resp)
           THEN /\ mainpc' = "gen_failed"
                /\ UNCHANGED questions
           ELSE LET qs == ParseCandidates(resp.cands) IN
                IF RetriesShortParse(variant, qs, num_questions)
                THEN /\ mainpc' = "generate"
                     /\ UNCHANGED questions
                ELSE /\ questions' = qs
                     /\ mainpc' = IF qs = <<>> THEN "no_questions" ELSE "display"
    /\ UNCHANGED <<inputVars, sessionVars, flags, timer_expired, timerVars,
                   reportVars>>

(* ---------------- run_quiz: one question ---------------- *)

\* the flag object the closure variable timer_expired is bound to right now
Flag == flags[timer_expired]

\* a faulty lookup that gives each question one second less than the table
TimeOneShort == time_limits[Lower(level)] - 1

\* number of iterations of `for remaining in range(time_per_question, 0, -1)`
TimePerQuestion == time_limits[Lower(level)]

\* print the question, `answer = None`, `timer_expired = [False]`, start the
\* countdown thread
DisplayQuestion ==
    /\ mainpc = "display"
    /\ i' = i + 1
    /\ answer' = "None"
    /\ flags' = Append(flags, FALSE)
    /\ timer_expired' = Len(flags) + 1
    /\ timerpc' = [timerpc EXCEPT ![i + 1] =
                      IF TimePerQuestion > 0 THEN "check" ELSE "final"]
    /\ remaining' = [remaining EXCEPT ![i + 1] = TimePerQuestion]
    /\ mainpc' = "while"
    /\ accepted' = FALSE
    /\ timesUp' = FALSE
    /\ expiredFirst' = FALSE
    /\ skipped' = FALSE
    /\ UNCHANGED <<inputVars, genVars, answers, score, interrupted, reportVars>>

\* `while not timer_expired[0]:`
WhileTest ==
    /\ mainpc = "while"
    /\ mainpc' = IF Flag THEN "after" ELSE "input"
    /\ UNCHANGED <<inputVars, genVars, sessionVars, flags, timer_expired,
                   timerVars, reportVars>>

\* the blocking input() returns a line of the operator
OperatorInput ==
    /\ mainpc = "input"
    /\ \E line \in InputLines : answer' = UpperStrip(line)
    /\ mainpc' = "validate"
    /\ UNCHANGED <<inputVars, genVars, i, answers, score, accepted, interrupted,
                   flags, timer_expired, timerVars, reportVars>>

\* a faulty test that takes every line for a choice
IsAnyLine(a) == TRUE

\* a faulty test that takes every non-empty line for a choice
IsNonEmptyLine(a) == a # ""

\* `if answer in ["A", "B", "C", "D"]:`
IsValidChoice(a) == a \in ValidChoices

\* valid: set the flag and break; invalid: print the complaint and loop
Validate ==
    /\ mainpc = "validate"
    /\ IF IsValidChoice(answer)
       THEN /\ flags' = [flags EXCEPT ![timer_expired] = TRUE]
            /\ accepted' = TRUE
            /\ mainpc' = "after"
       ELSE /\ mainpc' = "while"
            /\ UNCHANGED <<flags, accepted>>
    /\ UNCHANGED <<inputVars, genVars, i, answer, answers, score, interrupted,
                   timer_expired, timerVars, reportVars>>

\* `if not answer: answer = "TIMEOUT"`
AnswerOrTimeout(a) == IF Truthy(a) THEN a ELSE "TIMEOUT"

\* a faulty update that counts every recorded answer
ScoreEveryAnswer(s, a, q) == s + 1

\* `if answer == q["correct"]: score += 1`
ScoreAfter(s, a, q) == IF a = q.correct THEN s + 1 ELSE s

\* a faulty record step that numbers the questions from 0
RecordAnswerFromZero ==
    /\ mainpc = "after"
    /\ answer' = AnswerOrTimeout(answer)
    /\ answers' = Append(answers, [question_num |-> i - 1,
                                   user_answer |-> answer',
                                   correct_answer |-> questions[i].correct])
    /\ score' = ScoreAfter(score, answer', questions[i])
    /\ mainpc' = "join"
    /\ UNCHANGED <<inputVars, genVars, i, accepted, interrupted, flags,
                   timer_expired, timerVars, reportVars>>

\* after the loop: the TIMEOUT default, answers.append(...), the score update
RecordAnswer ==
    /\ mainpc = "after"
    /\ answer' = AnswerOrTimeout(answer)
    /\ answers' = Append(answers, [question_num |-> i,
                                   user_answer |-> answer',
                                   correct_answer |-> questions[i].correct])
    /\ score' = ScoreAfter(score, answer', questions[i])
    /\ mainpc' = "join"
    /\ UNCHANGED <<inputVars, genVars, i, accepted, interrupted, flags,
                   timer_expired, timerVars, reportVars>>

\* a faulty loop end that goes on without waiting for the countdown thread
ContinueWithoutJoin ==
    /\ mainpc = "join"
    /\ mainpc' = IF i < Len(questions) THEN "display" ELSE "results"
    /\ UNCHANGED <<inputVars, genVars, sessionVars, flags, timer_expired,
                   timerVars, reportVars>>

\* timer_thread.join(), then the next iteration or the end of the loop
JoinTimer ==
    /\ mainpc = "join"
    /\ timerpc[i] = "done"
    /\ mainpc' = IF i < Len(questions) THEN "display" ELSE "results"
    /\ UNCHANGED <<inputVars, genVars, sessionVars, flags, timer_expired,
                   timerVars, reportVars>>

(* ---------------- KeyboardInterrupt ---------------- *)

\* positions of the main thread inside `try:`
InTry == {"while", "input", "validate"}

\* quiz1's handler sets the flag and joins the thread before it returns
HandlerStopsTimer(v) == v = "quiz1"

\* a faulty handler that lacks its `return` and falls through to the code
\* after the try statement (C7 does not hold of it)
HandlerExitFallsThrough(v) == "after"

\* where the handler leaves the main thread: every handler ends in `return`,
\* quiz1's after joining the countdown thread
HandlerExit(v) == IF HandlerStopsTimer(v) THEN "abort_join" ELSE "aborted"

\* `except KeyboardInterrupt:` ... `return`
KeyboardInterrupt ==
    /\ mainpc \in InTry
    /\ interrupted' = i
    /\ flags' = IF HandlerStopsTimer(variant)
                THEN [flags EXCEPT ![timer_expired] = TRUE]
                ELSE flags
    /\ mainpc' = HandlerExit(variant)
    /\ UNCHANGED <<inputVars, genVars, i, answer, answers, score, accepted,
                   timer_expired, timerVars, reportVars>>

\* positions inside the question loop that no `try:` covers
OutsideTry == {"display", "after", "join", "abort_join"}

\* a KeyboardInterrupt there is not caught: it propagates out of run_quiz
InterruptOutsideTry ==
    /\ mainpc \in OutsideTry
    /\ mainpc' = "uncaught"
    /\ UNCHANGED <<inputVars, genVars, sessionVars, flags, timer_expired,
                   timerVars, reportVars>>

\* quiz1: `timer_thread.join()` in the handler, then `return`
AbortJoin ==
    /\ mainpc = "abort_join"
    /\ timerpc[i] = "done"
    /\ mainpc' = "aborted"
    /\ UNCHANGED <<inputVars, genVars, sessionVars, flags, timer_expired,
                   timerVars, reportVars>>

(* ---------------- the countdown thread of question k ---------------- *)

\* the next iteration of the for loop, or the statement after it
NextIteration(k) ==
    IF remaining[k] > 1
    THEN /\ remaining' = [remaining EXCEPT ![k] = remaining[k] - 1]
         /\ timerpc' = [timerpc EXCEPT ![k] = "check"]
    ELSE /\ remaining' = [remaining EXCEPT ![k] = 0]
         /\ timerpc' = [timerpc EXCEPT ![k] = "final"]

\* quiz1 leaves the thread on a set flag (`return`); the others skip the tick
ReturnsWhenStopped(v) == v = "quiz1"

\* the test of the flag at the top of an iteration
TimerCheck(k) ==
    /\ timerpc[k] = "check"
    /\ IF ~Flag
       THEN /\ timerpc' = [timerpc EXCEPT ![k] = "tick"]
            /\ UNCHANGED <<remaining, skipped>>
       ELSE /\ skipped' = TRUE
            /\ IF ReturnsWhenStopped(variant)
               THEN /\ timerpc' = [timerpc EXCEPT ![k] = "done"]
                    /\ remaining' = [remaining EXCEPT ![k] = 0]
               ELSE NextIteration(k)
    /\ UNCHANGED <<inputVars, mainpc, genVars, sessionVars, flags, timer_expired,
                   timesUp, expiredFirst, reportVars>>

\* print "Time remaining: ..." and sleep one second
TimerTick(k) ==
    /\ timerpc[k] = "tick"
    /\ NextIteration(k)
    /\ UNCHANGED <<inputVars, mainpc, genVars, sessionVars, flags, timer_expired,
                   timesUp, expiredFirst, skipped, reportVars>>

\* `if not timer_expired[0]:` after the loop
TimerFinal(k) ==
    /\ timerpc[k] = "final"
    /\ timerpc' = [timerpc EXCEPT ![k] = IF Flag THEN "done" ELSE "set"]
    /\ UNCHANGED <<inputVars, mainpc, genVars, sessionVars, flags, timer_expired,
                   remaining, timesUp, expiredFirst, skipped, reportVars>>

\* `timer_expired[0] = True`
TimerSet(k) ==
    /\ timerpc[k] = "set"
    /\ flags' = [flags EXCEPT ![timer_expired] = TRUE]
    /\ expiredFirst' = (~accepted /\ ~(mainpc = "validate" /\ IsValidChoice(answer)))
    /\ timerpc' = [timerpc EXCEPT ![k] = "announce"]
    /\ UNCHANGED <<inputVars, mainpc, genVars, sessionVars, timer_expired,
                   remaining, timesUp, skipped, reportVars>>

\* print "Time's up! Moving to next question..."
TimerAnnounce(k) ==
    /\ timerpc[k] = "announce"
    /\ timesUp' = TRUE
    /\ timerpc' = [timerpc EXCEPT ![k] = "done"]
    /\ UNCHANGED <<inputVars, mainpc, genVars, sessionVars, flags, timer_expired,
                   remaining, expiredFirst, skipped, reportVars>>

(* ---------------- results ---------------- *)

\* `percentage >= t` for percentage = (score / num_questions) * 100, n # 0
PercentageAtLeast(s, n, t) ==
    IF n > 0 THEN 100 * s >= t * n ELSE 100 * s <= t * n

\* the if/elif chain of the performance feedback
Tier(s, n) ==
    IF PercentageAtLeast(s, n, 90) THEN "excellent"
    ELSE IF PercentageAtLeast(s, n, 70) THEN "good"
    ELSE IF PercentageAtLeast(s, n, 50) THEN "needs practice"
    ELSE "review recommended"

\* the value of `percentage` before it is computed (den = 0)
NotComputed == [num |-> 0, den |-> 0]

\* `(score / num_questions) * 100`
Percentage(s, n) == [num |-> 100 * s, den |-> n]

\* files that divide score by num_questions after the results
ComputesPercentage(v) == v \in {"quiz", "quiz1", "quiz3"}

\* files that print the tier feedback
PrintsTier(v) == v \in {"quiz", "quiz1"}

\* results, detailed feedback, percentage (ZeroDivisionError on 0), feedback
ShowResults ==
    /\ mainpc = "results"
    /\ results' = TRUE
    /\ IF ComputesPercentage(variant) /\ num_questions = 0
       THEN /\ mainpc' = "zero_division"
            /\ UNCHANGED <<percentage, tier>>
       ELSE /\ mainpc' = "done"
            /\ percentage' = IF ComputesPercentage(variant)
                             THEN Percentage(score, num_questions)
                             ELSE NotComputed
            /\ tier' = IF PrintsTier(variant) THEN Tier(score, num_questions)
                       ELSE "none"
    /\ UNCHANGED <<inputVars, genVars, sessionVars, flags, timer_expired,
                   timerVars>>

\* quiz5: self.quiz_prompts[level] raises KeyError out of run_quiz
PromptKeyError ==
    /\ mainpc = "generate"
    /\ PromptLookupFails(variant, level)
    /\ mainpc' = "key_error"
    /\ UNCHANGED <<inputVars, genVars, sessionVars, flags, timer_expired,
                   timerVars, reportVars>>

(* ---------------- the response text, character by character ---------------- *)

\* A text is a sequence of one-character strings.

Whitespace == {" ", "\n"}

LowerLetters == <<"a", "b", "c", "d", "e", "f", "g", "h", "i", "j", "k", "l", "m",
                  "n", "o", "p", "q", "r", "s", "t", "u", "v", "w", "x", "y", "z">>

UpperLetters == <<"A", "B", "C", "D", "E", "F", "G", "H", "I", "J", "K", "L", "M",
                  "N", "O", "P", "Q", "R", "S", "T", "U", "V", "W", "X", "Y", "Z">>

DigitChars == <<"1", "2", "3", "4", "5", "6", "7", "8", "9">>

\* str.upper()
UpperText(s) ==
    [k \in 1 .. Len(s) |->
        IF \E n \in 1 .. Len(LowerLetters) : LowerLetters[n] = s[k]
        THEN UpperLetters[CHOOSE n \in 1 .. Len(LowerLetters) : LowerLetters[n] = s[k]]
        ELSE s[k]]

RECURSIVE LStripText(_)
LStripText(s) ==
    IF s # <<>> /\ Head(s) \in Whitespace THEN LStripText(Tail(s)) ELSE s

RECURSIVE RStripText(_)
RStripText(s) ==
    IF s # <<>> /\ s[Len(s)] \in Whitespace
    THEN RStripText(SubSeq(s, 1, Len(s) - 1))
    ELSE s

\* str.strip()
StripText(s) == RStripText(LStripText(s))

\* str.startswith(p)
StartsWith(s, p) == Len(s) >= Len(p) /\ SubSeq(s, 1, Len(p)) = p

\* the first position of p in s, 0 if p does not occur
FindText(s, p) ==
    LET hits == {k \in 1 .. (Len(s) - Len(p) + 1) : SubSeq(s, k, k + Len(p) - 1) = p}
    IN  IF hits = {} THEN 0 ELSE CHOOSE k \in hits : \A j \in hits : k <= j

\* str.split(sep)
RECURSIVE SplitText(_, _)
SplitText(s, sep) ==
    LET k == FindText(s, sep) IN
    IF k = 0 THEN <<s>>
    ELSE <<SubSeq(s, 1, k - 1)>> \o SplitText(SubSeq(s, k + Len(sep), Len(s)), sep)

\* sep.join(ps)
RECURSIVE JoinText(_, _)
JoinText(ps, sep) ==
    IF ps = <<>> THEN <<>>
    ELSE IF Len(ps) = 1 THEN ps[1]
    ELSE ps[1] \o sep \o JoinText(Tail(ps), sep)

\* str.replace(old, "")
RemoveText(s, old) == JoinText(SplitText(s, old), <<>>)

\* the last position of the run of digits that starts at j (j - 1 if none)
RECURSIVE DigitsEnd(_, _)
DigitsEnd(s, j) ==
    IF j <= Len(s) /\ (s[j] = "0" \/ \E n \in 1 .. Len(DigitChars) : DigitChars[n] = s[j])
    THEN DigitsEnd(s, j + 1)
    ELSE j - 1

\* the position after a match of the pattern Q\d+\. at k, 0 if it does not match
MarkerEnd(s, k) ==
    IF s[k] # "Q" THEN 0
    ELSE LET e == DigitsEnd(s, k + 1) IN
         IF e >= k + 1 /\ e + 1 <= Len(s) /\ s[e + 1] = "." THEN e + 2 ELSE 0

\* re.split(r"Q\d+\.", s)
RECURSIVE SplitMarkers(_)
SplitMarkers(s) ==
    LET hits == {k \in 1 .. Len(s) : MarkerEnd(s, k) # 0} IN
    IF hits = {} THEN <<s>>
    ELSE LET k == CHOOSE h \in hits : \A j \in hits : h <= j IN
         <<SubSeq(s, 1, k - 1)>> \o SplitMarkers(SubSeq(s, MarkerEnd(s, k), Len(s)))

NewLine == <<"\n">>
QuestionMark == <<"Q">>
FirstMarker == <<"Q", "1", ".">>
DotSpace == <<".", " ">>
OptionMark(letter) == <<letter, ")", " ">>
CorrectMark == <<"C", "o", "r", "r", "e", "c", "t", ":", " ">>
ExplanationMark == <<"E", "x", "p", "l", "a", "n", "a", "t", "i", "o", "n", ":", " ">>
\* the grave accent, which cannot be written inside a string here
BackTick == "grave"
FenceOpen == <<BackTick, BackTick, BackTick, "p", "y", "t", "h", "o", "n">>
FenceClose == <<BackTick, BackTick, BackTick>>

(* ---------------- the parse loop of generate_quiz ---------------- *)

\* an exception inside `try:` (IndexError, ValueError): the candidate is skipped
Skipped == [ok |-> FALSE, val |-> <<>>]

Parsed(v) == [ok |-> TRUE, val |-> v]

\* line.split(marker)[1].strip(), IndexError when the marker is not in the line
AfterMarker(line, marker) ==
    LET ps == SplitText(line, marker) IN
    IF Len(ps) < 2 THEN Skipped ELSE Parsed(StripText(ps[2]))

\* q.strip().split("\n")
LinesOf(q) == SplitText(StripText(q), NewLine)

\* quiz1: [p.strip() for p in q.strip().split("\n") if p.strip()]
StrippedLinesOf(q) ==
    LET stripped == [k \in 1 .. Len(LinesOf(q)) |-> StripText(LinesOf(q)[k])]
    IN  SelectSeq(stripped, LAMBDA p : p # <<>>)

\* s[3:]
DropThree(s) == SubSeq(s, 4, Len(s))

\* quiz.py: seven lines at fixed positions, every field after its marker
ParseCandidateQuiz(q) ==
    LET parts == LinesOf(q) IN
    IF Len(parts) < 7 THEN Skipped
    ELSE LET qt == AfterMarker(parts[1], DotSpace)
             oa == AfterMarker(parts[2], OptionMark("A"))
             ob == AfterMarker(parts[3], OptionMark("B"))
             oc == AfterMarker(parts[4], OptionMark("C"))
             od == AfterMarker(parts[5], OptionMark("D"))
             co == AfterMarker(parts[6], CorrectMark)
             ex == AfterMarker(parts[7], ExplanationMark)
         IN  IF qt.ok /\ oa.ok /\ ob.ok /\ oc.ok /\ od.ok /\ co.ok /\ ex.ok
             THEN Parsed([question |-> qt.val,
                          options |-> [A |-> oa.val, B |-> ob.val,
                                       C |-> oc.val, D |-> od.val],
                          correct |-> UpperText(co.val),
                          explanation |-> ex.val])
             ELSE Skipped

\* quiz1.py: slices and replace() instead of split(): no line can raise
ParseCandidateQuiz1(q) ==
    LET parts == StrippedLinesOf(q) IN
    IF Len(parts) < 7 THEN Skipped
    ELSE Parsed([question |-> parts[1],
                 options |-> [A |-> DropThree(parts[2]), B |-> DropThree(parts[3]),
                              C |-> DropThree(parts[4]), D |-> DropThree(parts[5])],
                 correct |-> UpperText(StripText(RemoveText(parts[6], CorrectMark))),
                 explanation |-> StripText(RemoveText(parts[7], ExplanationMark))])

\* quiz5 looks for a code block only at these levels
CodeLevels == {"intermediate", "advanced"}

\* the test that opens the code block branch
LooksForCode(v, lv, parts) ==
    /\ v = "quiz5" => lv \in CodeLevels
    /\ StartsWith(parts[2], FenceOpen)

\* parts.index("```", 2), as a position counted from 1; 0 for ValueError
ClosingFence(parts) ==
    LET hits == {j \in 3 .. Len(parts) : parts[j] = FenceClose} IN
    IF hits = {} THEN 0 ELSE CHOOSE j \in hits : \A h \in hits : j <= h

\* quiz3.py and quiz5.py: an optional fenced code block after the question line
ParseCandidateCode(v, lv, q) ==
    LET parts == LinesOf(q) IN
    IF Len(parts) < 6 THEN Skipped
    ELSE LET qt == AfterMarker(parts[1], DotSpace)
             fenced == LooksForCode(v, lv, parts)
             close == IF fenced THEN ClosingFence(parts) ELSE 0
             start == IF fenced THEN close + 1 ELSE 2
         IN  IF ~qt.ok \/ (fenced /\ close = 0) \/ start + 5 > Len(parts)
             THEN Skipped
             ELSE LET oa == AfterMarker(parts[start], OptionMark("A"))
                      ob == AfterMarker(parts[start + 1], OptionMark("B"))
                      oc == AfterMarker(parts[start + 2], OptionMark("C"))
                      od == AfterMarker(parts[start + 3], OptionMark("D"))
                      co == AfterMarker(parts[start + 4], CorrectMark)
                      ex == AfterMarker(parts[start + 5], ExplanationMark)
                  IN  IF oa.ok /\ ob.ok /\ oc.ok /\ od.ok /\ co.ok /\ ex.ok
                      THEN Parsed([question |-> qt.val,
                                   code |-> IF fenced
                                            THEN JoinText(SubSeq(parts, 2, close), NewLine)
                                            ELSE <<>>,
                                   options |-> [A |-> oa.val, B |-> ob.val,
                                                C |-> oc.val, D |-> od.val],
                                   correct |-> UpperText(co.val),
                                   explanation |-> ex.val])
                      ELSE Skipped

ParseCandidate(v, lv, q) ==
    CASE v = "quiz" -> ParseCandidateQuiz(q)
      [] v = "quiz1" -> ParseCandidateQuiz1(q)
      [] OTHER -> ParseCandidateCode(v, lv, q)

\* response.text.split("Q")[1:], quiz1: re.split(r"Q\d+\.", response.text)[1:]
RawQuestions(v, t) ==
    Tail(IF v = "quiz1" THEN SplitMarkers(t) ELSE SplitText(t, QuestionMark))

\* `for q in raw_questions:` with questions.append(...) or `continue`
RECURSIVE ParseLoop(_, _, _)
ParseLoop(v, lv, raws) ==
    IF raws = <<>> THEN <<>>
    ELSE LET r == ParseCandidate(v, lv, Head(raws)) IN
         (IF r.ok THEN <<r.val>> ELSE <<>>) \o ParseLoop(v, lv, Tail(raws))

ParseText(v, lv, t) == ParseLoop(v, lv, RawQuestions(v, t))

\* `if not response.text` (quiz1: `or "Q1." not in response.text`)
TextRejected(v, t) ==
    \/ t = <<>>
    \/ v = "quiz1" /\ FindText(t, FirstMarker) = 0

(* ---------------- response texts of the parser specification ---------------- *)

CandidateKinds == {"plain", "lower", "queue", "badletter", "timeoutletter",
                   "noOptPrefix", "noCorrect", "noExplanation", "short",
                   "fenced", "fencedQ", "fencedOpen", "fencedShort"}

\* the text of a candidate after its "Qn. " marker
CandidateBody(kind) ==
    CASE kind = "plain" ->
           <<"w", "\n", "A", ")", " ", "a", "\n", "B", ")", " ", "b", "\n", "C", ")", " ", "c", "\n", "D", ")", " ", "d", "\n", "C", "o", "r", "r", "e", "c", "t", ":", " ", "A", "\n", "E", "x", "p", "l", "a", "n", "a", "t", "i", "o", "n", ":", " ", "e", "\n">>
      [] kind = "lower" ->
           <<"w", "\n", "A", ")", " ", "a", "\n", "B", ")", " ", "b", "\n", "C", ")", " ", "c", "\n", "D", ")", " ", "d", "\n", "C", "o", "r", "r", "e", "c", "t", ":", " ", "b", "\n", "E", "x", "p", "l", "a", "n", "a", "t", "i", "o", "n", ":", " ", "e", "\n">>
      [] kind = "queue" ->
           <<"w", "Q", "\n", "A", ")", " ", "a", "\n", "B", ")", " ", "b", "\n", "C", ")", " ", "c", "\n", "D", ")", " ", "d", "\n", "C", "o", "r", "r", "e", "c", "t", ":", " ", "A", "\n", "E", "x", "p", "l", "a", "n", "a", "t", "i", "o", "n", ":", " ", "e", "\n">>
      [] kind = "badletter" ->
           <<"w", "\n", "A", ")", " ", "a", "\n", "B", ")", " ", "b", "\n", "C", ")", " ", "c", "\n", "D", ")", " ", "d", "\n", "C", "o", "r", "r", "e", "c", "t", ":", " ", "E", "\n", "E", "x", "p", "l", "a", "n", "a", "t", "i", "o", "n", ":", " ", "e", "\n">>
      [] kind = "timeoutletter" ->
           <<"w", "\n", "A", ")", " ", "a", "\n", "B", ")", " ", "b", "\n", "C", ")", " ", "c", "\n", "D", ")", " ", "d", "\n", "C", "o", "r", "r", "e", "c", "t", ":", " ", "t", "i", "m", "e", "o", "u", "t", "\n", "E", "x", "p", "l", "a", "n", "a", "t", "i", "o", "n", ":", " ", "e", "\n">>
      [] kind = "noOptPrefix" ->
           <<"w", "\n", "a", "\n", "B", ")", " ", "b", "\n", "C", ")", " ", "c", "\n", "D", ")", " ", "d", "\n", "C", "o", "r", "r", "e", "c", "t", ":", " ", "A", "\n", "E", "x", "p", "l", "a", "n", "a", "t", "i", "o", "n", ":", " ", "e", "\n">>
      [] kind = "noCorrect" ->
           <<"w", "\n", "A", ")", " ", "a", "\n", "B", ")", " ", "b", "\n", "C", ")", " ", "c", "\n", "D", ")", " ", "d", "\n", "A", "\n", "E", "x", "p", "l", "a", "n", "a", "t", "i", "o", "n", ":", " ", "e", "\n">>
      [] kind = "noExplanation" ->
           <<"w", "\n", "A", ")", " ", "a", "\n", "B", ")", " ", "b", "\n", "C", ")", " ", "c", "\n", "D", ")", " ", "d", "\n", "C", "o", "r", "r", "e", "c", "t", ":", " ", "A", "\n", "e", "\n">>
      [] kind = "short" ->
           <<"w", "\n", "A", ")", " ", "a", "\n", "B", ")", " ", "b", "\n", "C", ")", " ", "c", "\n", "D", ")", " ", "d", "\n", "C", "o", "r", "r", "e", "c", "t", ":", " ", "A", "\n">>
      [] kind = "fenced" ->
           <<"w", "\n", BackTick, BackTick, BackTick, "p", "y", "t", "h", "o", "n", "\n", "x", "\n", BackTick, BackTick, BackTick, "\n", "A", ")", " ", "a", "\n", "B", ")", " ", "b", "\n", "C", ")", " ", "c", "\n", "D", ")", " ", "d", "\n", "C", "o", "r", "r", "e", "c", "t", ":", " ", "A", "\n", "E", "x", "p", "l", "a", "n", "a", "t", "i", "o", "n", ":", " ", "e", "\n">>
      [] kind = "fencedQ" ->
           <<"w", "\n", BackTick, BackTick, BackTick, "p", "y", "t", "h", "o", "n", "\n", "x", "Q", "\n", BackTick, BackTick, BackTick, "\n", "A", ")", " ", "a", "\n", "B", ")", " ", "b", "\n", "C", ")", " ", "c", "\n", "D", ")", " ", "d", "\n", "C", "o", "r", "r", "e", "c", "t", ":", " ", "A", "\n", "E", "x", "p", "l", "a", "n", "a", "t", "i", "o", "n", ":", " ", "e", "\n">>
      [] kind = "fencedOpen" ->
           <<"w", "\n", BackTick, BackTick, BackTick, "p", "y", "t", "h", "o", "n", "\n", "x", "\n", "A", ")", " ", "a", "\n", "B", ")", " ", "b", "\n", "C", ")", " ", "c", "\n", "D", ")", " ", "d", "\n", "C", "o", "r", "r", "e", "c", "t", ":", " ", "A", "\n", "E", "x", "p", "l", "a", "n", "a", "t", "i", "o", "n", ":", " ", "e", "\n">>
      [] kind = "fencedShort" ->
           <<"w", "\n", BackTick, BackTick, BackTick, "p", "y", "t", "h", "o", "n", "\n", "x", "\n", BackTick, BackTick, BackTick, "\n", "A", ")", " ", "a", "\n", "B", ")", " ", "b", "\n", "C", ")", " ", "c", "\n", "D", ")", " ", "d", "\n", "C", "o", "r", "r", "e", "c", "t", ":", " ", "A", "\n">>

\* candidate number n of a response: the marker line and the body
CandidateText(n, kind) == <<"Q", DigitChars[n], ".", " ">> \o CandidateBody(kind)

Batches == UNION {[1 .. n -> CandidateKinds] : n \in 0 .. MaxItems}

RECURSIVE BatchTextFrom(_, _)
BatchTextFrom(b, n) ==
    IF n > Len(b) THEN <<>> ELSE CandidateText(n, b[n]) \o BatchTextFrom(b, n + 1)

\* the response text made of the candidates of batch b, numbered from 1
BatchText(b) == BatchTextFrom(b, 1)

\* lower-case levels, as __main__ passes them
ParseLevels == {"beginner", "advanced"}

\* generate_quiz up to the end of its parse loop, applied to the response text
ParseResponse ==
    /\ mainpc = "parse"
    /\ IF TextRejected(variant, text)
       THEN /\ mainpc' = "gen_failed"
            /\ UNCHANGED questions
       ELSE /\ mainpc' = "parsed"
            /\ questions' = ParseText(variant, level, text)
    /\ UNCHANGED <<inputVars, attempts, emptyText, sessionVars, flags, timer_expired,
                   timerVars, reportVars>>

ParseInit ==
    /\ variant \in Variants
    /\ level \in ParseLevels
    /\ \E b \in Batches : text = BatchText(b)
    /\ num_questions = 0
    /\ mainpc = "parse"
    /\ attempts = 0
    /\ emptyText = FALSE
    /\ questions = <<>>
    /\ i = 0
    /\ answer = "None"
    /\ flags = <<>>
    /\ timer_expired = 0
    /\ timerpc = [k \in Questions |-> "idle"]
    /\ remaining = [k \in Questions |-> 0]
    /\ answers = <<>>
    /\ score = 0
    /\ timesUp = FALSE
    /\ accepted = FALSE
    /\ expiredFirst = FALSE
    /\ skipped = FALSE
    /\ interrupted = 0
    /\ results = FALSE
    /\ percentage = NotComputed
    /\ tier = "none"

ParseNext == ParseResponse

ParseSpec == ParseInit /\ [][ParseNext]_vars

Init ==
    /\ variant \in Variants
    /\ text = <<>>
    /\ level \in LevelInputs
    /\ num_questions \in NumQuestionsInputs
    /\ mainpc = "start"
    /\ attempts = 0
    /\ emptyText = FALSE
    /\ questions = <<>>
    /\ i = 0
    /\ answer = "None"
    /\ flags = <<>>
    /\ timer_expired = 0
    /\ timerpc = [k \in Questions |-> "idle"]
    /\ remaining = [k \in Questions |-> 0]
    /\ answers = <<>>
    /\ score = 0
    /\ timesUp = FALSE
    /\ accepted = FALSE
    /\ expiredFirst = FALSE
    /\ skipped = FALSE
    /\ interrupted = 0
    /\ results = FALSE
    /\ percentage = NotComputed
    /\ tier = "none"

TimerStep == \E k \in Questions :
    \/ TimerCheck(k)
    \/ TimerTick(k)
    \/ TimerFinal(k)
    \/ TimerSet(k)
    \/ TimerAnnounce(k)

\* steps the program takes by itself
ProgramStep ==
    \/ RunQuizStart
    \/ GenerateQuiz
    \/ PromptKeyError
    \/ DisplayQuestion
    \/ WhileTest
    \/ Validate
    \/ RecordAnswer
    \/ JoinTimer
    \/ AbortJoin
    \/ ShowResults
    \/ TimerStep

\* steps of the operator
OperatorStep ==
    \/ OperatorInput
    \/ KeyboardInterrupt
    \/ InterruptOutsideTry

Next == ProgramStep \/ OperatorStep

Spec == Init /\ [][Next]_vars

(* ---------------- properties ---------------- *)

\* the countdown thread of question k is neither unstarted nor finished
TimerAlive(k) == timerpc[k] \notin {"idle", "done"}

\* this step prints a "Time remaining" line
TickPrinted == \E k \in Questions : timerpc[k] = "tick" /\ timerpc'[k] # "tick"

\* this step prints "Time's up!"
TimesUpPrinted == \E k \in Questions : timerpc[k] = "announce" /\ timerpc'[k] = "done"

\* generate_quiz has returned a list to run_quiz
GenerateReturned ==
    mainpc \notin {"start", "invalid_level", "generate", "gen_failed", "key_error"}

\* the record of the question being asked has been appended
Recorded == i > 0 /\ Len(answers) = i

\* C1: for the question being asked it never happens that the countdown took
\* the timeout path (printed "Time's up!") and the input loop also accepted a
\* valid choice.
C1_ExactlyOnePath == ~(timesUp /\ accepted)

\* C2: when the countdown set the flag before any valid line had been read,
\* the question is recorded as TIMEOUT: no later line is accepted or recorded.
C2_LateInputDiscarded ==
    expiredFirst => /\ ~accepted
                    /\ Recorded => answers[i].user_answer = "TIMEOUT"

\* C3: every record in answers has user_answer A, B, C, D or TIMEOUT.
C3_UserAnswerDomain ==
    \A r \in 1 .. Len(answers) :
        answers[r].user_answer \in ValidChoices \cup {"TIMEOUT"}

\* C4: once "Time's up!" is printed the session goes on by itself: with the
\* main thread at the answer prompt, some step of the program itself (not of
\* the operator) is possible.
C4_TimeoutNeedsNoInput ==
    (timesUp /\ mainpc = "input") => ENABLED ProgramStep

\* C5: once the input loop has accepted a valid choice, no step prints a
\* "Time remaining" line or "Time's up!".
C5_NoOutputAfterAccept ==
    [][accepted => (~TickPrinted /\ ~TimesUpPrinted)]_vars

\* C6: when run_quiz has returned from the KeyboardInterrupt handler, no
\* countdown thread is still running.
C6_InterruptStopsClock ==
    mainpc = "aborted" => \A k \in Questions : ~TimerAlive(k)

\* C7: after a KeyboardInterrupt at the prompt of question n the session has
\* ended: there is no record for question n, question n stays the last one
\* displayed, and no results or performance feedback are printed.
C7_InterruptEndsSession ==
    interrupted # 0 =>
        /\ Len(answers) = interrupted - 1
        /\ i = interrupted
        /\ ~results
        /\ tier = "none"
        /\ mainpc \in {"abort_join", "aborted", "uncaught"}

\* C7 witness: the second question was interrupted after the first was recorded.
C7_Witness ==
    /\ interrupted = 2
    /\ mainpc = "aborted"
    /\ Len(answers) = 1

\* any configured maximum of attempts below the number of requests followed
MaxAttempts == AttemptCap - 1

\* C8: after MaxAttempts requests generate_quiz does not go on to another one.
C8_RetriesBounded == ~(mainpc = "generate" /\ attempts >= MaxAttempts)

\* C9: when generate_quiz has returned for a positive num_questions, the list
\* has at least num_questions items.
C9_MinimumYield ==
    (GenerateReturned /\ num_questions > 0) => Len(questions) >= num_questions

\* C10: with a non-positive num_questions no generation request is made, no
\* question is displayed and no results are computed.
C10_NonPositiveCountRejected ==
    num_questions <= 0 => (attempts = 0 /\ i = 0 /\ ~results)

\* C11: with a level outside beginner/intermediate/advanced no session starts:
\* no generation request, no countdown thread, no question displayed, no
\* record, no results and no feedback.
C11_InvalidLevelNoSession ==
    Lower(level) \notin difficulty_levels =>
        /\ attempts = 0
        /\ i = 0
        /\ \A k \in Questions : timerpc[k] = "idle"
        /\ answers = <<>>
        /\ ~results
        /\ tier = "none"

\* C11 witness: run_quiz has returned on the level "expert".
C11_Witness == level = "expert" /\ mainpc = "invalid_level"

(* ---------------- properties of the parser (ParseSpec) ---------------- *)

ChoiceTexts == {<<c>> : c \in ValidChoices}

\* C12: every item returned by the parser has options with exactly the keys
\* A, B, C, D and a `correct` value that is one of the letters A, B, C, D,
\* whatever follows the "Correct:" marker.
C12_CorrectIsChoice ==
    mainpc = "parsed" =>
        \A k \in 1 .. Len(questions) :
            /\ DOMAIN questions[k].options = ValidChoices
            /\ questions[k].correct \in ChoiceTexts

\* the four fields every variant stores for an item
ItemCore(q) ==
    [question |-> q.question, options |-> q.options,
     correct |-> q.correct, explanation |-> q.explanation]

\* candidates that follow the requested format
WellFormedKinds == {"plain", "lower", "queue"}

\* candidates that lack an option prefix, a marker or a line
LackingKinds == {"noOptPrefix", "noCorrect", "noExplanation", "short"}

\* the item a well-formed candidate describes
DescribedItem(kind) ==
    [question |-> IF kind = "queue" THEN <<"w", "Q">> ELSE <<"w">>,
     options |-> [A |-> <<"a">>, B |-> <<"b">>, C |-> <<"c">>, D |-> <<"d">>],
     correct |-> IF kind = "lower" THEN <<"B">> ELSE <<"A">>,
     explanation |-> <<"e">>]

\* the kinds of b that are in `keep`, in their order
KeptKinds(b, keep) == SelectSeq(b, LAMBDA kind : kind \in keep)

DescribedItems(b, keep) ==
    [k \in 1 .. Len(KeptKinds(b, keep)) |-> DescribedItem(KeptKinds(b, keep)[k])]

ReturnedCores == [k \in 1 .. Len(questions) |-> ItemCore(questions[k])]

\* exactly one candidate of b lacks a required field, the others are plain
OneLacking(b) ==
    /\ Cardinality({k \in 1 .. Len(b) : b[k] \in LackingKinds}) = 1
    /\ \A k \in 1 .. Len(b) : b[k] \in LackingKinds \union {"plain", "lower"}

\* C13: when exactly one of the candidates lacks a required field, the parser
\* returns exactly the items of the other candidates, unchanged and in order.
C13_CandidateIndependence ==
    \A b \in Batches :
        (text = BatchText(b) /\ OneLacking(b) /\ mainpc \in {"parsed", "gen_failed"}) =>
            /\ mainpc = "parsed"
            /\ ReturnedCores = DescribedItems(b, {"plain", "lower"})

\* every candidate of b follows the requested format
AllWellFormed(b) == b # <<>> /\ \A k \in 1 .. Len(b) : b[k] \in WellFormedKinds

\* C14: from a batch of N well-formed candidates, also ones whose question
\* text contains the letter Q, the parser returns exactly the N items in
\* input order.
C14_WellFormedBatchParsed ==
    \A b \in Batches :
        (text = BatchText(b) /\ AllWellFormed(b) /\ mainpc \in {"parsed", "gen_failed"}) =>
            /\ mainpc = "parsed"
            /\ ReturnedCores = DescribedItems(b, WellFormedKinds)

(* ---------------- properties of the session (Spec), continued ---------------- *)

\* the records whose user_answer equals their correct_answer
CorrectRecords == {r \in 1 .. Len(answers) : answers[r].user_answer = answers[r].correct_answer}

C16_PercentageOfAsked ==
    (mainpc = "done" /\ ComputesPercentage(variant) /\ num_questions > 0) =>
        /\ percentage.den = Len(answers)
        /\ percentage.num = 100 * score
        /\ 0 <= percentage.num
        /\ percentage.num <= 100 * percentage.den

\* the answer "TIMEOUT" as a text, for comparison with a parsed `correct`
TimeoutText == <<"T", "I", "M", "E", "O", "U", "T">>

\* C17: a question resolved as TIMEOUT never increments the score, whatever
\* item the parser returned for it (ParseSpec).
C17_TimeoutNeverScores ==
    mainpc = "parsed" =>
        \A k \in 1 .. Len(questions) : ScoreAfter(0, TimeoutText, questions[k]) = 0

\* the countdown of question k ran every iteration of its loop with its tick
\* (print and one-second sleep) and left the loop
CountdownElapsed(k) ==
    /\ timerpc[k] \in {"set", "announce", "done"}
    /\ remaining[k] = 0
    /\ ~skipped

\* C18: a question is recorded as TIMEOUT only after its countdown has gone
\* through all its one-second ticks and set the flag itself; blank or invalid
\* lines do not end the question.
C18_TimeoutNotEarly ==
    (Recorded /\ answers[i].user_answer = "TIMEOUT") =>
        /\ CountdownElapsed(i)
        /\ timerpc[i] # "set"
        /\ Flag
        /\ ~accepted

\* C18 witness: the question was recorded as TIMEOUT after a blank line.
C18_Witness ==
    /\ Recorded
    /\ answers[i].user_answer = "TIMEOUT"
    /\ answer = "TIMEOUT"
    /\ mainpc = "join"
    /\ CountdownElapsed(i)

\* a step of the main thread other than the KeyboardInterrupt handler
MainThreadStep == mainpc' # mainpc /\ interrupted' = interrupted

\* C19: a line that is not A, B, C or D after trimming and upper-casing does
\* not resolve the question: the step that rejects it leaves the flag, the
\* countdown and the records as they are and returns to the loop test, and the
\* loop test prompts again while the flag is unset.
C19_InvalidInputNoEffect ==
    [][ /\ (mainpc = "validate" /\ answer \notin ValidChoices /\ MainThreadStep) =>
            /\ mainpc' = "while"
            /\ flags' = flags
            /\ timer_expired' = timer_expired
            /\ remaining' = remaining
            /\ timerpc' = timerpc
            /\ answers' = answers
            /\ score' = score
        /\ (mainpc = "while" /\ ~Flag /\ MainThreadStep) => mainpc' = "input"
      ]_vars

\* C19 witness: the reader prompts again after the invalid line "x", the flag
\* is unset and the countdown is still running.
C19_Witness ==
    /\ mainpc = "input"
    /\ answer = "X"
    /\ ~Flag
    /\ timerpc[i] \in {"check", "tick"}
    /\ remaining[i] > 0

TierNames == {"excellent", "good", "needs practice", "review recommended"}

\* the fraction p is at least t (percent)
AtLeastPercent(p, t) ==
    IF p.den > 0 THEN p.num >= t * p.den ELSE p.num <= t * p.den

\* the session asked its questions and printed the results
SessionCompleted == mainpc \in {"done", "zero_division"}

\* C20: every completed session reports exactly one tier, chosen from the
\* percentage by the thresholds 90, 70 and 50, each boundary belonging to the
\* upper tier.
C20_OneTierByThresholds ==
    SessionCompleted =>
        /\ tier \in TierNames
        /\ percentage # NotComputed =>
            /\ tier = "excellent" <=> AtLeastPercent(percentage, 90)
            /\ tier = "good" <=>
                   (AtLeastPercent(percentage, 70) /\ ~AtLeastPercent(percentage, 90))
            /\ tier = "needs practice" <=>
                   (AtLeastPercent(percentage, 50) /\ ~AtLeastPercent(percentage, 70))
            /\ tier = "review recommended" <=> ~AtLeastPercent(percentage, 50)

\* C21: when the collaborator returns an empty text, generate_quiz raises: no
\* items are returned, no further request is issued, run_quiz is left by the
\* exception and no question is displayed.
C21_EmptyTextIsFatal ==
    emptyText =>
        /\ mainpc = "gen_failed"
        /\ questions = <<>>
        /\ ~ENABLED GenerateQuiz
        /\ ~ENABLED DisplayQuestion
        /\ i = 0
        /\ \A k \in Questions : timerpc[k] = "idle"
        /\ answers = <<>>
        /\ ~results

\* C21 witness: quiz3's second request, made after a short parse, was
\* answered with an empty text.
C21_Witness ==
    /\ emptyText
    /\ variant = "quiz3"
    /\ attempts = 2
    /\ mainpc = "gen_failed"

\* the durations the specification gives, in seconds
StatedDurations == [beginner |-> 30, intermediate |-> 45, advanced |-> 60]

\* this step is a tick ("Time remaining" printed, one second slept) of question k
TickOf(k) == timerpc[k] = "tick" /\ timerpc'[k] # "tick"

\* C22: every question of a session gets the duration of the session's level
\* from the table 30/45/60; the ticks of a question show remaining times that
\* start at the duration, fall by one with each tick and stop at 1.
C22_DurationAndTicks ==
    [][ /\ time_limits = StatedDurations
        /\ (i' # i) =>
              /\ timerpc'[i'] = "check"
              /\ remaining'[i'] = StatedDurations[Lower(level)]
        /\ \A k \in Questions :
              /\ TickOf(k) =>
                    /\ remaining[k] \in 1 .. StatedDurations[Lower(level)]
                    /\ remaining'[k] = remaining[k] - 1
              /\ (i' = i \/ k # i') => remaining'[k] <= remaining[k]
      ]_vars

\* C22 witness: the last tick ("1 seconds") of the second question of an
\* advanced session.
C22_Witness ==
    /\ Lower(level) = "advanced"
    /\ i = 2
    /\ timerpc[2] = "tick"
    /\ remaining[2] = 1

\* the records are numbered 1, 2, ... and there is one for every question
\* displayed so far, except possibly the one being asked
RecordsInOrder ==
    /\ \A r \in 1 .. Len(answers) : answers[r].question_num = r
    /\ Len(answers) \in {i - 1, i} \cap Nat

\* C23: the items are processed in order, one at a time: the records are
\* numbered 1..k without gap or duplicate, one per resolved question; question
\* i + 1 is displayed only after the record and score update of question i;
\* a record is never changed after it was appended.
C23_StrictlyInOrder ==
    [][ /\ RecordsInOrder
        /\ RecordsInOrder'
        /\ (i' # i) => (i' = i + 1 /\ Len(answers) = i)
        /\ Len(answers') \in {Len(answers), Len(answers) + 1}
        /\ SubSeq(answers', 1, Len(answers)) = answers
        /\ (score' # score) => Len(answers') = Len(answers) + 1
      ]_vars

\* C23 witness: the second question is displayed and the first one has its
\* record.
C23_Witness ==
    /\ i = 2
    /\ mainpc = "while"
    /\ Len(answers) = 1
    /\ answers[1].question_num = 1

\* the questions whose countdown thread is running
AliveTimers == {k \in Questions : TimerAlive(k)}

\* C24: the countdown thread of question i has ended before question i + 1 is
\* displayed and its thread started: never are two countdown threads alive,
\* the only one alive is that of the question being asked, and no tick of an
\* earlier question is printed.
C24_OneCountdownAtATime ==
    [][ /\ Cardinality(AliveTimers) <= 1
        /\ AliveTimers \subseteq {i}
        /\ (i' # i /\ i > 0) => timerpc[i] = "done"
        /\ \A k \in Questions : TickOf(k) => k = i
        /\ AliveTimers' \subseteq {i'}
      ]_vars

\* C24 witness: the countdown of the second question runs, that of the first
\* has ended.
C24_Witness ==
    /\ i = 2
    /\ timerpc[1] = "done"
    /\ timerpc[2] = "tick"

(* ---------------- properties of the parser (ParseSpec), continued ---------------- *)

\* the files whose items have a code field
CodeVariants == {"quiz3", "quiz5"}

\* candidates with a complete fenced code block after the question line
FencedKinds == {"fenced", "fencedQ"}

\* candidates whose code block is not closed or is followed by too few lines
BrokenFenceKinds == {"fencedOpen", "fencedShort"}

\* the lines of the code block of a fenced candidate, fences included
FencedCode(kind) ==
    JoinText(<<FenceOpen, IF kind = "fencedQ" THEN <<"x", "Q">> ELSE <<"x">>,
               FenceClose>>, NewLine)

\* the item, with its code field, that a candidate describes
DescribedCodeItem(kind) ==
    [question |-> <<"w">>,
     code |-> IF kind \in FencedKinds THEN FencedCode(kind) ELSE <<>>,
     options |-> [A |-> <<"a">>, B |-> <<"b">>, C |-> <<"c">>, D |-> <<"d">>],
     correct |-> IF kind = "lower" THEN <<"B">> ELSE <<"A">>,
     explanation |-> <<"e">>]

DescribedCodeItems(b) ==
    LET kept == KeptKinds(b, {"plain", "lower"} \union FencedKinds)
    IN  [k \in 1 .. Len(kept) |-> DescribedCodeItem(kept[k])]

\* the batch is made of plain candidates and candidates with a code fence
FenceBatch(b) ==
    /\ b # <<>>
    /\ \A k \in 1 .. Len(b) :
          b[k] \in {"plain", "lower"} \union FencedKinds \union BrokenFenceKinds

\* C25: a candidate whose second line opens a fenced code block yields an item
\* whose code field is the block from the opening to the closing fence and
\* whose other fields come from the lines after the closing fence; a candidate
\* without closing fence, or with fewer than six lines after it, yields no
\* item; a candidate without fence yields an item with the empty code field.
C25_FencedCodeParsed ==
    \A b \in Batches :
        (text = BatchText(b) /\ FenceBatch(b) /\ variant \in CodeVariants
            /\ mainpc = "parsed") =>
            questions = DescribedCodeItems(b)

(* ---------------- properties of the session (Spec), continued ---------------- *)

\* C26: when generate_quiz returns an empty list, run_quiz ends with the
\* no-questions failure: no question is displayed, no countdown thread is
\* started, and neither results nor a percentage nor a tier is produced.
C26_NoQuestionsEndsSession ==
    (GenerateReturned /\ questions = <<>>) =>
        /\ mainpc = "no_questions"
        /\ i = 0
        /\ \A k \in Questions : timerpc[k] = "idle"
        /\ flags = <<>>
        /\ answers = <<>>
        /\ ~results
        /\ percentage = NotComputed
        /\ tier = "none"

\* C26 witness: quiz.py was asked for questions, the response held no
\* candidate that parsed, and run_quiz has returned.
C26_Witness ==
    /\ variant = "quiz"
    /\ num_questions > 0
    /\ attempts = 1
    /\ ~emptyText
    /\ questions = <<>>
    /\ mainpc = "no_questions"

\* this step is a step of the countdown thread of question k
CountdownStepOf(k) == timerpc[k] # "idle" /\ timerpc'[k] # timerpc[k]

\* C27: every question starts with a flag of its own that is False; a flag
\* only ever changes from False to True; the countdown thread of question k
\* takes its steps while the variable timer_expired is bound to the flag of
\* question k, and only the flag of the question being asked is written.
C27_FlagFreshAndMonotone ==
    [][ /\ Len(flags') >= Len(flags)
        /\ \A j \in 1 .. Len(flags) : flags[j] => flags'[j]
        /\ (i' # i) =>
              /\ Len(flags') = i'
              /\ timer_expired' = i'
              /\ ~flags'[i']
        /\ (i' = i) => (timer_expired' = timer_expired /\ Len(flags') = Len(flags))
        /\ \A k \in Questions : CountdownStepOf(k) => timer_expired = k
        /\ \A j \in 1 .. Len(flags) : flags'[j] # flags[j] => j = i
      ]_vars

\* C27 witness: the second question runs on its own unset flag while the flag
\* of the first question stays set.
C27_Witness ==
    /\ i = 2
    /\ flags = <<TRUE, FALSE>>
    /\ timer_expired = 2
    /\ timerpc[2] = "tick"

====
